---- MODULE Spec2Model ----
(***************************************************************************)
(* A model of reliable.c: a sliding-window ARQ session (struct             *)
(* reliable_state) with its ring buffer of unacknowledged packets (struct  *)
(* ringbuf), driven by rel_read, rel_recvpkt and rel_timer.  Two hosts,    *)
(* each running one session, are connected by a datagram channel.          *)
(***************************************************************************)
EXTENDS Integers, Sequences, FiniteSets, TLC

\* ------------------------------------------------------------------ bounds

\* cc->window: the capacity of the ring buffer.
WindowSize == 2
\* cc->timer: milliseconds between two calls of rel_timer.
TimerCfg == 1
\* cc->timeout: milliseconds of the retransmission interval.
TimeoutCfg == 2
\* Bytes each host's local source holds before it reports end of file.
SrcLen == 2
\* The same where two hosts are followed.
NetSrcLen == 1
\* Most bytes one conn_input call finds available.
MaxAvail == 1
\* Datagrams in flight towards one host.
MaxChan == 2
\* Largest value the never-initialised ringbuf.count is drawn from.
MaxInitCount == 3
\* Lowest value the countdown next_timeout is followed to.
MinCountdown == 0
\* Largest sequence number a session is followed to.
MaxSeqno == 3
\* Largest next_ackno a session is followed to.
MaxAckno == 3
\* Largest sequence number of the data packets an unseen peer sends.
MaxPeerSeq == 1
\* Bytes the source of the watched sender holds, and the largest sequence
\* number it is followed to: enough for its ring buffer to wrap around.
SenderSrcLen == 3
MaxSenderSeqno == 4
\* Sessions one host creates where its list of sessions is followed.
MaxSessions == 3

\* --------------------------------------------------------------- constants

PAYLOAD_SIZE == 500
\* Size of a data packet's header and of an ack packet (rel_recvpkt, ingest_pkt).
DataHdr == 12
AckLen == 8

NULL == 0
Sess == {1, 2}
Peer(s) == 3 - s

Min(a, b) == IF a < b THEN a ELSE b
Max(S) == CHOOSE x \in S : \A y \in S : y <= x

\* The model checker's integers are 32-bit and signed.  The unsigned differences
\* the code computes are small or, when they wrap below zero, close to 2^32:
\* Huge stands for the wrapped values, which the code only compares with
\* small ones.
Huge == 2147483647
U32(x) == IF x < 0 THEN Huge ELSE x

\* ----------------------------------------------------------- packet codec

\* Byte order conversions of a little-endian host: the bytes are reversed.
htons(x) == ((x % 256) * 256) + ((x \div 256) % 256)
ntohs(x) == ((x % 256) * 256) + ((x \div 256) % 256)
htonl(x) == ((x % 256) * 16777216) + (((x \div 256) % 256) * 65536)
            + (((x \div 65536) % 256) * 256) + ((x \div 16777216) % 256)
ntohl(x) == ((x % 256) * 16777216) + (((x \div 256) % 256) * 65536)
            + (((x \div 65536) % 256) * 256) + ((x \div 16777216) % 256)

\* A byte no source ever holds: what a read beyond a packet's payload yields.
GarbageByte == 255

RECURSIVE SumBytes(_)
SumBytes(d) == IF d = <<>> THEN 0 ELSE Head(d) + SumBytes(Tail(d))

\* The first k bytes of a payload; bytes read beyond it are garbage.
TakeBytes(d, k) ==
    IF k <= Len(d) THEN SubSeq(d, 1, k) ELSE d \o <<GarbageByte>>

\* packet_t as calloc leaves it.
ZeroPkt == [cksum |-> 0, len |-> 0, ackno |-> 0, seqno |-> 0, data |-> <<>>]

\* The 16-bit checksum of the first n bytes of a packet, every field as stored
\* (the checksum field included: the callers zero it first, or do not).
cksum(pkt, n) ==
    65535 - ((pkt.cksum + pkt.len + (pkt.ackno % 65536) + (pkt.ackno \div 65536)
              + (IF n > AckLen THEN (pkt.seqno % 65536) + (pkt.seqno \div 65536) ELSE 0)
              + (IF n > DataHdr THEN SumBytes(TakeBytes(pkt.data, n - DataHdr)) ELSE 0))
             % 65535)

get_seqno(pkt) == ntohl(pkt.seqno)
get_size(pkt) == ntohs(pkt.len)

\* A datagram on the wire: the packet's bytes and how many of them were sent.
Dgram(pkt, n) == [pkt |-> pkt, n |-> n]

\* ------------------------------------------------------------- ring buffer

\* struct ringbuf as rel_create leaves it: count is never assigned, so it holds
\* whatever xmalloc's memory held.
NewRingbuf(garbage) ==
    [reader |-> 0, writer |-> 0, size |-> WindowSize, count |-> garbage,
     buffer |-> [i \in 0 .. WindowSize - 1 |-> ZeroPkt]]

\* size_t arithmetic returned as uint32_t.
buf_space(buf) == U32(buf.size - buf.count)

put_pkt(buf, pkt) ==
    IF buf.count < buf.size
    THEN [buf EXCEPT !.buffer[buf.writer] = pkt,
                     !.writer = (buf.writer + 1) % buf.size,
                     !.count = buf.count + 1]
    ELSE buf

\* The return value of put_pkt: 0 if the packet was stored, 1 otherwise.
put_pkt_rc(buf) == IF buf.count < buf.size THEN 0 ELSE 1

\* The packet at the reader position as a one-element sequence, <<>> for NULL.
read_pkt(buf) == IF buf.count > 0 THEN <<buf.buffer[buf.reader]>> ELSE <<>>

pop_pkt(buf) ==
    IF read_pkt(buf) # <<>>
    THEN [buf EXCEPT !.reader = (buf.reader + 1) % buf.size,
                     !.count = buf.count - 1]
    ELSE buf

\* ------------------------------------------------------ local source, sink

\* conn_input: got = -1 at end of file, 0 when nothing is available now,
\* else the number of bytes read.  The bytes of a source are 1, 2, ..., and
\* it ends after inp.len bytes at the latest.
InputResults(inp) ==
    {0, -1} \cup (IF inp.eof THEN {}
                  ELSE 1 .. Min(PAYLOAD_SIZE, Min(MaxAvail, inp.len - inp.pos)))

conn_input(inp, got) ==
    IF got = -1 THEN [inp EXCEPT !.eof = TRUE]
    ELSE [inp EXCEPT !.pos = inp.pos + got]

InputBytes(inp, got) == [i \in 1 .. (IF got > 0 THEN got ELSE 0) |-> inp.pos + i]

\* conn_output: n = 0 signals end of file to the sink; else the sink takes
\* the first `accept` of the n bytes offered.
conn_output(sink, bytes, n, accept) ==
    IF n = 0 THEN [sink EXCEPT !.eof = TRUE]
    ELSE [sink EXCEPT !.bytes = sink.bytes \o SubSeq(TakeBytes(bytes, n), 1, accept)]

\* The byte count rel_recvpkt passes to conn_output: uint32_t arithmetic.
PayloadLen(pkt) == U32(get_size(pkt) - DataHdr)

\* How many bytes the sink may take of a received packet.
AcceptChoices(pkt) ==
    IF get_size(pkt) = AckLen \/ get_size(pkt) = DataHdr THEN {0}
    ELSE 0 .. Len(TakeBytes(pkt.data, PayloadLen(pkt)))

\* ----------------------------------------------------------------- session

\* The link a session's prev points to when it is the head: &rel_list.
RelListLink == 0

\* struct reliable_state as rel_create leaves it (one session per host, so
\* rel_list was NULL: next = NULL, prev = &rel_list).
NewSession(garbage) ==
    [next |-> NULL, prev |-> RelListLink,
     pkt_buf |-> NewRingbuf(garbage),
     latest_seqno_snapshot |-> 0,
     timer |-> TimerCfg, timeout |-> TimeoutCfg, next_timeout |-> TimeoutCfg,
     next_ackno |-> 1, next_seqno |-> 1,
     read_error |-> 0]

\* What one event handler works on: the session r, the host's source and sink,
\* and what the handler did: the datagrams it sent (out), the entries it popped,
\* whether it wrote outside the ring buffer (oob), whether it destroyed r.
Ctx(r, inp, sink) ==
    [r |-> r, inp |-> inp, sink |-> sink, out |-> <<>>, popped |-> 0,
     oob |-> FALSE, destroyed |-> FALSE]

conn_sendpkt(c, pkt, n) == [c EXCEPT !.out = c.out \o <<Dgram(pkt, n)>>]

\* The packet ingest_pkt builds from the payload just read (len = -1 at EOF).
BuildPkt(r, payload, len) ==
    LET pkt_size == IF len > 0 THEN len + DataHdr ELSE DataHdr
        pkt == [cksum |-> 0,
                seqno |-> htonl(r.next_seqno),
                ackno |-> htonl(r.next_ackno),
                len   |-> htons(pkt_size),
                data  |-> IF len > 0 THEN payload ELSE <<>>]
    IN  [pkt EXCEPT !.cksum = cksum(pkt, pkt_size)]

ingest_pkt(c, payload, len) ==
    IF buf_space(c.r.pkt_buf) > 0
    THEN LET pkt == BuildPkt(c.r, payload, len)
             r1  == [c.r EXCEPT !.next_seqno = c.r.next_seqno + 1]
             r2  == IF len > 0
                    THEN [r1 EXCEPT !.pkt_buf = put_pkt(r1.pkt_buf, pkt)]
                    ELSE r1
         IN  conn_sendpkt([c EXCEPT !.r = r2], pkt, get_size(pkt))
    ELSE c

\* The slot resend reads at step i: buffer[reader + i], with no modulo; a slot
\* beyond the buffer holds whatever lies behind it in memory (stray).
ScanSlot(buf, i, stray) ==
    IF buf.reader + i < buf.size THEN buf.buffer[buf.reader + i] ELSE stray

RECURSIVE ResendLoop(_, _, _)
ResendLoop(c, i, stray) ==
    IF i < c.r.pkt_buf.count
    THEN LET next_pkt == ScanSlot(c.r.pkt_buf, i, stray)
             c1 == IF get_seqno(next_pkt) <= c.r.latest_seqno_snapshot
                   THEN conn_sendpkt(c, next_pkt, get_size(next_pkt))
                   ELSE c
         IN  ResendLoop(c1, i + 1, stray)
    ELSE c

resend(c, stray) ==
    LET c1 == [c EXCEPT !.r.next_timeout = c.r.next_timeout - c.r.timer]
    IN  IF c1.r.next_timeout <= 0 /\ c1.r.pkt_buf.count > 0
        THEN LET c2 == ResendLoop(c1, 0, stray)
                 last_pkt == ScanSlot(c1.r.pkt_buf, c1.r.pkt_buf.count - 1, stray)
             IN  [c2 EXCEPT !.r.latest_seqno_snapshot = get_seqno(last_pkt),
                            !.r.next_timeout = c1.r.timeout]
        ELSE c1

\* The standalone ack of ack_pkt.
BuildAck(ackno) ==
    LET ack == [cksum |-> 0, len |-> htons(AckLen), ackno |-> ackno,
                seqno |-> 0, data |-> <<>>]
    IN  [ack EXCEPT !.cksum = cksum(ack, AckLen)]

\* The slot ack_pkt piggybacks on: buffer[writer - 1] in uint32_t arithmetic.
PiggySlot(buf) == U32(buf.writer - 1)

ack_pkt(c) ==
    LET r1 == [c.r EXCEPT !.next_ackno = c.r.next_ackno + 1]
        ackno == htonl(r1.next_ackno)
        c1 == [c EXCEPT !.r = r1]
    IN  IF r1.pkt_buf.count = 0
        THEN conn_sendpkt(c1, BuildAck(ackno), AckLen)
        ELSE LET k == PiggySlot(r1.pkt_buf)
             IN  IF k < r1.pkt_buf.size
                 THEN LET p1 == [r1.pkt_buf.buffer[k] EXCEPT !.ackno = ackno]
                          p2 == [p1 EXCEPT !.cksum = cksum(p1, get_size(p1))]
                      IN  [c1 EXCEPT !.r.pkt_buf.buffer[k] = p2]
                 ELSE [c1 EXCEPT !.oob = TRUE]

\* rel_read with the result `got` of its conn_input call.
rel_read(c, got) ==
    IF buf_space(c.r.pkt_buf) > 0
    THEN LET payload == InputBytes(c.inp, got)
             c1 == [c EXCEPT !.inp = conn_input(c.inp, got),
                             !.r.read_error = IF got = -1 THEN 1 ELSE 0]
         IN  IF got = 0 THEN c1 ELSE ingest_pkt(c1, payload, got)
    ELSE c

\* The loop of rel_recvpkt that advances the reader up to the acked seqno.
RECURSIVE AdvanceLAR(_, _)
AdvanceLAR(c, ackno) ==
    LET next_pkt == read_pkt(c.r.pkt_buf)
    IN  IF next_pkt # <<>> /\ get_seqno(next_pkt[1]) < ackno
        THEN AdvanceLAR([c EXCEPT !.r.pkt_buf = pop_pkt(c.r.pkt_buf),
                                  !.popped = c.popped + 1], ackno)
        ELSE c

\* A mistaken teardown test: local end of file alone.
TeardownDueNoDrain(s) == s.read_error # 0

\* The test rel_recvpkt makes on an end-of-file packet before it destroys s.
TeardownDue(s) == s.read_error # 0 /\ s.pkt_buf.count = 0

\* rel_destroy: unlink the session and destroy its connection.
rel_destroy(c) == [c EXCEPT !.destroyed = TRUE]

\* rel_recvpkt on the packet of datagram m; `got` is what conn_input returns
\* if rel_read is reached, `accept` what the sink takes if conn_output is.
rel_recvpkt(c, m, got, accept) ==
    LET pkt == [m.pkt EXCEPT !.ackno = ntohl(m.pkt.ackno)]
    IN  IF get_size(pkt) = AckLen
        THEN rel_read(AdvanceLAR(c, pkt.ackno), got)
        ELSE IF get_size(pkt) = DataHdr
        THEN LET c1 == [c EXCEPT !.sink = conn_output(c.sink, pkt.data, 0, 0)]
             IN  IF TeardownDue(c1.r)
                 THEN rel_destroy(c1)
                 ELSE c1
        ELSE LET c1 == ack_pkt(c)
             IN  [c1 EXCEPT !.sink =
                     conn_output(c1.sink, pkt.data, PayloadLen(pkt), accept)]

\* ------------------------------------------------------------------- state

VARIABLES
    r,          \* r[s]: the struct reliable_state of the session on host s
    rel_list,   \* rel_list[s]: the head of host s's session list, or NULL
    chan,       \* chan[s]: the datagrams in flight towards host s, oldest first
    input,      \* input[s]: the local source: bytes consumed, EOF reported
    output,     \* output[s]: the local sink: bytes taken, EOF signalled
    last,       \* the last event: what was handled and what the handler did
    watch,      \* watch[s]: a stopwatch on each slot of s's ring buffer
    registry    \* one host's list of several sessions: rel_list, next, prev

vars == <<r, rel_list, chan, input, output, last, watch, registry>>

\* A session takes events while its connection exists, that is until rel_destroy.
Live(s) == rel_list[s] # NULL

NoDgram == Dgram(ZeroPkt, 0)

Event(op, s, m, c) ==
    [op |-> op, s |-> s, m |-> m, popped |-> c.popped, oob |-> c.oob, out |-> c.out]

\* What memory behind the ring buffer may hold when resend reads it.
StraySeqno == 127
StrayPkts ==
    {ZeroPkt,
     [ZeroPkt EXCEPT !.seqno = htonl(StraySeqno), !.len = htons(DataHdr + 1),
                     !.data = <<GarbageByte>>]}

\* The values the never-assigned ringbuf.count may hold: zero, a count of
\* entries that were never put, and a count beyond the buffer's size.
InitCounts == {0} \cup (1 .. MaxInitCount)

\* Timer ticks a stopwatch counts before it stops: one full retransmission
\* interval and a tick more.
WatchCap == (TimeoutCfg \div TimerCfg) + 1

\* The stopwatches of a ring buffer, for the hosts that are watched: for each
\* slot, the timer ticks since its packet was put and first sent (age), and
\* whether a timer sweep has sent it again since (resent).
Watched(on, old, new, op, out, w) ==
    IF ~on THEN w
    ELSE [k \in 0 .. WindowSize - 1 |->
            IF new.buffer[k].seqno # old.buffer[k].seqno
            THEN [age |-> 0, resent |-> FALSE]
            ELSE IF op = "timer"
            THEN [age |-> Min(w[k].age + 1, WatchCap),
                  resent |-> w[k].resent
                             \/ \E j \in 1 .. Len(out) : out[j].pkt = old.buffer[k]]
            ELSE w[k]]

\* The sessions a host may create, and its list before the first rel_create.
\* A link (rel_t **) is RelListLink for &rel_list, or j for &j->next.
Ids == 1 .. MaxSessions

NewRegistry ==
    [rel_list |-> NULL, live |-> {}, made |-> {},
     next |-> [i \in Ids |-> NULL], prev |-> [i \in Ids |-> RelListLink],
     walk |-> <<>>]

\* After rel_create on the hosts of `live`, count drawn from `counts`.
InitWith(live, counts, srclen, watching) ==
    /\ registry = NewRegistry
    /\ r \in [Sess -> {NewSession(g) : g \in counts}]
    /\ \A s \in Sess \ live : r[s] = NewSession(0)
    /\ rel_list = [s \in Sess |-> IF s \in live THEN s ELSE NULL]
    /\ chan = [s \in Sess |-> <<>>]
    /\ input = [s \in Sess |-> [pos |-> 0, len |-> srclen[s], eof |-> FALSE]]
    /\ output = [s \in Sess |-> [bytes |-> <<>>, eof |-> FALSE]]
    /\ last = [op |-> "create", s |-> NULL, m |-> NoDgram, popped |-> 0,
               oob |-> FALSE, out |-> <<>>]
    /\ watch = [s \in Sess |->
                  [on |-> watching,
                   slot |-> [k \in 0 .. WindowSize - 1 |->
                               [age |-> 0, resent |-> FALSE]]]]

\* The datagrams `out` sent by host s: in flight towards its peer while the
\* peer's connection exists, lost otherwise.
Sent(s, q, out) ==
    [q EXCEPT ![Peer(s)] = IF Live(Peer(s)) THEN @ \o out ELSE @]

\* The handler's effects on host s: its session, its list (rel_destroy unlinks
\* the session: *r->prev = r->next), its source and sink, the datagrams sent.
Commit(s, c, q, ev) ==
    /\ c.r.next_seqno <= (IF watch[s].on THEN MaxSenderSeqno ELSE MaxSeqno)
    /\ c.r.next_ackno <= MaxAckno
    /\ c.r.next_timeout >= 0 - MinCountdown
    /\ Len(Sent(s, q, c.out)[Peer(s)]) <= MaxChan
    /\ r' = [r EXCEPT ![s] = c.r]
    /\ rel_list' = IF c.destroyed THEN [rel_list EXCEPT ![s] = c.r.next] ELSE rel_list
    /\ input' = [input EXCEPT ![s] = c.inp]
    /\ output' = [output EXCEPT ![s] = c.sink]
    /\ chan' = Sent(s, q, c.out)
    /\ last' = ev
    /\ watch' = [watch EXCEPT ![s].slot =
                    Watched(watch[s].on, r[s].pkt_buf, c.r.pkt_buf, ev.op, c.out, @)]
    /\ UNCHANGED registry

Here(s) == Ctx(r[s], input[s], output[s])

\* "Input available" on host s.
Read(s) ==
    /\ Live(s)
    /\ \E got \in InputResults(input[s]) :
         LET c == rel_read(Here(s), got)
         IN  Commit(s, c, chan, Event("read", s, NoDgram, c))

\* "Packet received" on host s: rel_recvpkt on datagram m, q being what stays
\* in flight.  The sink takes all of the payload, or with backpressure any
\* part of it.
Deliver(s, m, q, backpressure) ==
    /\ Live(s)
    /\ \E got \in IF get_size(m.pkt) = AckLen THEN InputResults(input[s]) ELSE {0},
          accept \in IF backpressure THEN AcceptChoices(m.pkt)
                     ELSE {Max(AcceptChoices(m.pkt))} :
         LET c == rel_recvpkt(Here(s), m, got, accept)
         IN  Commit(s, c, q, Event("recv", s, m, c))

\* A channel that delivers in order, into a sink that takes everything.
RecvInOrder(s) ==
    /\ chan[s] # <<>>
    /\ Deliver(s, Head(chan[s]), [chan EXCEPT ![s] = Tail(@)], FALSE)

\* rel_timer on host s: resend on every session of its list.
Timer(s) ==
    /\ Live(s)
    /\ \E stray \in StrayPkts :
         LET c == resend(Here(s), stray)
         IN  Commit(s, c, chan, Event("timer", s, NoDgram, c))

\* ----------------------------------------------------------------- channel

FlipBit0(x) == IF x % 2 = 0 THEN x + 1 ELSE x - 1

\* A datagram damaged in transit: one bit of its ack number flipped, so that
\* its checksum no longer verifies, or its last payload byte cut off, so that
\* its length field no longer matches.
Corruptions(m) ==
    {[m EXCEPT !.pkt.ackno = htonl(FlipBit0(ntohl(@)))]}
    \cup (IF m.n > DataHdr THEN {[m EXCEPT !.n = @ - 1]} ELSE {})

\* ------------------------------------------------------------ environment

\* What a peer running this code can have sent: acks, data packets carrying
\* one byte, end-of-file packets.
PeerAcks == {Dgram(BuildAck(htonl(a)), AckLen) : a \in 2 .. MaxSeqno}
PeerPkt(seq, payload) ==
    LET pkt == BuildPkt([next_seqno |-> seq, next_ackno |-> 1], payload, Len(payload))
    IN  Dgram(pkt, get_size(pkt))
PeerData == {PeerPkt(q, <<q>>) : q \in 1 .. MaxPeerSeq}
PeerEof == {PeerPkt(MaxPeerSeq + 1, <<>>)}
PeerDgrams == PeerAcks \cup PeerData \cup PeerEof

\* What may arrive: what the peer sent, as sent or damaged in transit.
Arrivals == PeerDgrams \cup UNION {Corruptions(m) : m \in PeerDgrams}

\* "Packet received" on a host whose peer is out of sight: any arrival.
RecvAny(s) == \E m \in Arrivals : Deliver(s, m, chan, TRUE)

\* ---------------------------------------------------------- specifications

\* One session and everything its peer and the channel may send it.
Init == InitWith({1}, InitCounts, <<SrcLen, 0>>, FALSE)

Next ==
    \/ Read(1)
    \/ RecvAny(1)
    \/ Timer(1)

Spec == Init /\ [][Next]_vars

\* The same on a host whose fresh memory was zero.
ZeroInit == InitWith({1}, {0}, <<SrcLen, 0>>, FALSE)

ZeroSpec == ZeroInit /\ [][Next]_vars

\* A sender whose memory was zero, with a stopwatch on every packet it holds:
\* it reads, its timer ticks, and acks arrive or do not.
RecvAck(s) == \E m \in PeerAcks : Deliver(s, m, chan, TRUE)

SenderInit == InitWith({1}, {0}, <<SenderSrcLen, 0>>, TRUE)

SenderNext ==
    \/ Read(1)
    \/ RecvAck(1)
    \/ Timer(1)

SenderSpec == SenderInit /\ [][SenderNext]_vars

\* Two hosts whose memory was zero on a channel that only delays; host 1 has
\* bytes to send, host 2 has none.
ReliableInit == InitWith(Sess, {0}, <<NetSrcLen, 0>>, FALSE)

ReliableNext ==
    \E s \in Sess :
        \/ Read(s)
        \/ RecvInOrder(s)
        \/ Timer(s)

ReliableSpec == ReliableInit /\ [][ReliableNext]_vars

\* ---------------------------------------------------------------- registry

\* rel_create's insertion of the new session id at the head of the list.
Link(g, id) ==
    LET g1 == [g EXCEPT !.next[id] = g.rel_list, !.prev[id] = RelListLink]
        g2 == IF g.rel_list # NULL
              THEN [g1 EXCEPT !.prev[g.rel_list] = id]
              ELSE g1
    IN  [g2 EXCEPT !.rel_list = id, !.live = @ \cup {id}, !.made = @ \cup {id}]

\* *link = val.
StoreLink(g, link, val) ==
    IF link = RelListLink THEN [g EXCEPT !.rel_list = val]
    ELSE [g EXCEPT !.next[link] = val]

\* A mistaken removal: the successor's back-pointer is left as it was.
UnlinkNoBackptr(g, id) == StoreLink(g, g.prev[id], g.next[id])

\* rel_destroy's removal of session id from the list; its memory is not freed.
Unlink(g, id) ==
    LET g1 == IF g.next[id] # NULL
              THEN [g EXCEPT !.prev[g.next[id]] = g.prev[id]]
              ELSE g
    IN  StoreLink(g1, g.prev[id], g.next[id])

\* The sessions rel_timer calls resend on: from p along the next pointers, for
\* at most `fuel` steps.
RECURSIVE Walk(_, _, _)
Walk(g, p, fuel) ==
    IF p = NULL \/ fuel = 0 THEN <<>>
    ELSE <<p>> \o Walk(g, g.next[p], fuel - 1)

rel_timer(g) == [g EXCEPT !.walk = Walk(g, g.rel_list, MaxSessions + 1)]

RegEvent(op, id) ==
    [op |-> op, s |-> id, m |-> NoDgram, popped |-> 0, oob |-> FALSE, out |-> <<>>]

RegStep(g, op, id) ==
    /\ registry' = g
    /\ last' = RegEvent(op, id)
    /\ UNCHANGED <<r, rel_list, chan, input, output, watch>>

\* rel_create: a new session, in memory not used before.
RegCreate == \E id \in Ids \ registry.made : RegStep(Link(registry, id), "create", id)

\* rel_destroy on a session whose connection exists; conn_destroy ends it.
RegDestroy ==
    \E id \in registry.live :
        RegStep([Unlink(registry, id) EXCEPT !.live = @ \ {id}], "destroy", id)

RegTimer == RegStep(rel_timer(registry), "timer", NULL)

RegistryInit == InitWith({}, {0}, <<0, 0>>, FALSE)

RegistryNext == RegCreate \/ RegDestroy \/ RegTimer

RegistrySpec == RegistryInit /\ [][RegistryNext]_vars

\* ------------------------------------------------------------------ claims

\* The window of a ring buffer as the code walks it: count entries from the
\* reader position on, circularly, oldest first.
Entries(buf) ==
    [i \in 1 .. buf.count |-> buf.buffer[(buf.reader + i - 1) % buf.size]]

IsAck(m) == get_size(m.pkt) = AckLen
IsEof(m) == get_size(m.pkt) = DataHdr

\* What a receiver that checked would accept: the checksum verifies over the
\* bytes received, and the length field is the number of bytes received.
Valid(m) ==
    /\ m.n = get_size(m.pkt)
    /\ cksum([m.pkt EXCEPT !.cksum = 0], m.n) = m.pkt.cksum

\* The event just handled was rel_recvpkt on host s.
Received(s) == last'.op = "recv" /\ last'.s = s

\* C1: the occupancy count of every send window is at most the window size,
\* and put_pkt on a full window fails and changes nothing.
C1_WindowBounded ==
    \A s \in Sess :
        LET buf == r[s].pkt_buf
        IN  /\ 0 <= buf.count /\ buf.count <= buf.size
            /\ buf.count = buf.size =>
                 put_pkt_rc(buf) = 1 /\ put_pkt(buf, ZeroPkt) = buf

\* C2: an ack with number a pops exactly the leading window entries whose
\* sequence number is below a; every entry that remains has a sequence number
\* of at least a, and an ack not above the oldest entry pops nothing.
C2_CumulativeAck ==
    [][\A s \in Sess :
         (Received(s) /\ IsAck(last'.m)) =>
            LET a == ntohl(last'.m.pkt.ackno)
                before == Entries(r[s].pkt_buf)
                k == last'.popped
            IN  /\ k <= Len(before)
                /\ \A i \in 1 .. k : get_seqno(before[i]) < a
                /\ \A i \in k + 1 .. Len(before) : get_seqno(before[i]) >= a
                /\ (before # <<>> /\ a <= get_seqno(before[1])) => k = 0]_vars

\* C3: over a channel that neither drops nor corrupts, the receiver's sink
\* holds the bytes the sender read, in order, each once; and once nothing is
\* in flight and the sender's window is empty, it holds all of them.
C3_NoLossInOrderOnce ==
    /\ Len(output[2].bytes) <= input[1].pos
    /\ \A i \in 1 .. Len(output[2].bytes) : output[2].bytes[i] = i
    /\ (chan[1] = <<>> /\ chan[2] = <<>> /\ r[1].pkt_buf.count = 0)
          => Len(output[2].bytes) = input[1].pos

\* C4: a payload packet delivered a second time writes nothing to the sink
\* and leaves next_ackno as the first delivery left it.
C4_DuplicateIsIdempotent ==
    [][\A s \in Sess :
         (Received(s) /\ last.op = "recv" /\ last.s = s /\ last'.m = last.m
            /\ last.m \in PeerData) =>
            /\ output'[s].bytes = output[s].bytes
            /\ r'[s].next_ackno = r[s].next_ackno]_vars

\* C5: a packet whose checksum does not verify, or whose length field is not
\* the number of bytes received, has no effect: the session, the sink and the
\* source are as before, nothing is sent, the session is not destroyed.
C5_CorruptIsDiscarded ==
    [][\A s \in Sess :
         (Received(s) /\ ~Valid(last'.m)) =>
            /\ r'[s] = r[s]
            /\ output'[s] = output[s]
            /\ input'[s] = input[s]
            /\ last'.out = <<>>
            /\ rel_list'[s] = rel_list[s]]_vars

\* The slots the window occupies.
Occupied(buf) == {(buf.reader + i) % buf.size : i \in 0 .. buf.count - 1}

\* C6: a packet that has been in the send window unacknowledged for more
\* than one timeout interval since it was first sent has been retransmitted.
C6_ResentWithinTimeout ==
    \A s \in Sess : \A k \in Occupied(r[s].pkt_buf) :
        (watch[s].on /\ watch[s].slot[k].age * r[s].timer > r[s].timeout)
            => watch[s].slot[k].resent

\* C7: a session is destroyed only in a state where its local source has
\* reported end of file, its read_error flag is set and its window is empty.
C7_DestroyOnlyWhenDone ==
    [][\A s \in Sess :
         (Live(s) /\ ~Live(s)') =>
            /\ input[s].eof
            /\ r[s].read_error # 0
            /\ r[s].pkt_buf.count = 0]_vars

\* C7 witness: a session was destroyed by rel_recvpkt, after local end of
\* file and with an empty window.
C7_Destroyed ==
    /\ last.op = "recv" /\ last.s = 1 /\ IsEof(last.m)
    /\ ~Live(1)
    /\ r[1].read_error # 0 /\ r[1].pkt_buf.count = 0

\* C8: a session that has seen local end of file, has received its peer's
\* end-of-file packet and whose window is empty is destroyed in the end: it
\* is not left alive once its peer is gone and nothing is in flight to it.
C8_TeardownComplete ==
    \A s \in Sess :
        (/\ r[s].read_error # 0
         /\ output[s].eof
         /\ r[s].pkt_buf.count = 0
         /\ chan[s] = <<>>
         /\ ~Live(Peer(s)))
            => ~Live(s)

\* C9: when the window has no free slot, rel_read (called for an input event,
\* or by rel_recvpkt after the pops of an ack) consumes no input, sends
\* nothing and leaves next_seqno, read_error and the window as they are.
C9_FullWindowBlocksRead ==
    [][\A s \in Sess :
         (last'.s = s
            /\ (last'.op = "read" \/ (last'.op = "recv" /\ IsAck(last'.m)))
            /\ r[s].pkt_buf.count - last'.popped >= r[s].pkt_buf.size) =>
            /\ input'[s] = input[s]
            /\ last'.out = <<>>
            /\ r'[s].next_seqno = r[s].next_seqno
            /\ r'[s].read_error = r[s].read_error
            /\ r'[s].pkt_buf.buffer = r[s].pkt_buf.buffer
            /\ r'[s].pkt_buf.writer = r[s].pkt_buf.writer
            /\ r'[s].pkt_buf.count = r[s].pkt_buf.count - last'.popped]_vars

\* C10: when the sink takes fewer bytes than a payload packet offers, the
\* packet is not acknowledged: next_ackno stays and no ack is sent.
C10_PartialWriteNotAcked ==
    [][\A s \in Sess :
         (Received(s) /\ last'.m \in PeerData
            /\ Len(output'[s].bytes) - Len(output[s].bytes) < PayloadLen(last'.m.pkt)) =>
            /\ r'[s].next_ackno = r[s].next_ackno
            /\ last'.out = <<>>]_vars

\* The handler just run on host s sent an end-of-file packet.
SentEof(ev) == \E j \in 1 .. Len(ev.out) : IsEof(ev.out[j])

\* C11: when rel_read meets the end of the local source, the end-of-file
\* packet it sends is put in the send window: the occupancy grows by one and
\* the packet is the newest window entry.
C11_EofOccupiesSlot ==
    [][\A s \in Sess :
         (last'.s = s /\ last'.op # "timer" /\ SentEof(last')) =>
            LET after == Entries(r'[s].pkt_buf)
            IN  /\ r'[s].pkt_buf.count = r[s].pkt_buf.count - last'.popped + 1
                /\ after # <<>>
                /\ Dgram(after[Len(after)], DataHdr) \in
                      {last'.out[j] : j \in 1 .. Len(last'.out)}]_vars

\* C12: after a payload packet with sequence number q is received, next_ackno
\* is q + 1, and so is the ack number of every ack then sent.
C12_AckIsSeqnoPlusOne ==
    [][\A s \in Sess :
         (Received(s) /\ last'.m \in PeerData) =>
            LET q == get_seqno(last'.m.pkt)
            IN  /\ r'[s].next_ackno = q + 1
                /\ \A j \in 1 .. Len(last'.out) :
                      ntohl(last'.out[j].pkt.ackno) = q + 1]_vars

\* C13: a payload packet received with an empty window is answered by one
\* standalone ack of 8 bytes; with a window that is not empty nothing is sent,
\* the ack field written is that of the slot circularly before the writer, and
\* no other slot or memory is written.
C13_AckPath ==
    [][\A s \in Sess :
         (Received(s) /\ last'.m \in PeerData) =>
            LET buf == r[s].pkt_buf
                k == (buf.writer + buf.size - 1) % buf.size
            IN  IF buf.count = 0
                THEN /\ Len(last'.out) = 1
                     /\ IsAck(last'.out[1]) /\ last'.out[1].n = AckLen
                     /\ r'[s].pkt_buf = buf
                ELSE /\ last'.out = <<>>
                     /\ ~last'.oob
                     /\ r'[s].pkt_buf.buffer[k].ackno = htonl(r'[s].next_ackno)
                     /\ \A i \in 0 .. buf.size - 1 :
                           i # k => r'[s].pkt_buf.buffer[i] = buf.buffer[i]]_vars

\* The test resend makes, after counting down, before it walks the window.
SweepDue(s) == s.next_timeout - s.timer <= 0 /\ s.pkt_buf.count > 0

\* The window entries with a sequence number of at most snap, oldest first,
\* as datagrams of their own length.
Resendable(buf, snap) ==
    LET old == SelectSeq(Entries(buf), LAMBDA p : get_seqno(p) <= snap)
    IN  [j \in 1 .. Len(old) |-> Dgram(old[j], get_size(old[j]))]

\* C14: a timer sweep reads only occupied slots of the window, circularly from
\* the reader: what it sends are window entries, and the entry whose sequence
\* number it records as newest is the entry pushed last.
C14_ScanStaysInWindow ==
    [][\A s \in Sess :
         (last'.s = s /\ last'.op = "timer" /\ SweepDue(r[s])) =>
            LET window == Entries(r[s].pkt_buf)
            IN  /\ \A j \in 1 .. Len(last'.out) :
                      \E i \in 1 .. Len(window) : last'.out[j].pkt = window[i]
                /\ r'[s].latest_seqno_snapshot = get_seqno(window[Len(window)])]_vars

\* C15: a sweep sends again exactly the window entries whose sequence number
\* is at most the snapshot of the sweep before, then records the newest
\* entry's sequence number and resets the countdown; a tick that does not sweep
\* sends nothing and keeps the snapshot.
C15_SnapshotLag ==
    [][\A s \in Sess :
         (last'.s = s /\ last'.op = "timer") =>
            LET buf == r[s].pkt_buf
            IN  IF SweepDue(r[s])
                THEN /\ last'.out = Resendable(buf, r[s].latest_seqno_snapshot)
                     /\ r'[s].latest_seqno_snapshot =
                           get_seqno(Entries(buf)[buf.count])
                     /\ r'[s].next_timeout = r[s].timeout
                ELSE /\ last'.out = <<>>
                     /\ r'[s].latest_seqno_snapshot = r[s].latest_seqno_snapshot]_vars

\* The handler of the event just handled on host s contained a call of rel_read.
ReadEvent(s) ==
    /\ last'.s = s
    /\ last'.op = "read" \/ (last'.op = "recv" /\ IsAck(last'.m))

\* C16: an event that read bytes from the local source ends only when the
\* window has no free slot, the source has no bytes left, or it is at its end.
C16_ReadDrainsInput ==
    [][\A s \in Sess :
         (ReadEvent(s) /\ input'[s].pos > input[s].pos) =>
            \/ buf_space(r'[s].pkt_buf) = 0
            \/ input'[s].pos = input'[s].len
            \/ input'[s].eof]_vars

\* C17: when a payload packet was received with a window that is not empty,
\* so that its ack was piggybacked and nothing sent, the timer tick that
\* follows sends a packet carrying the session's next_ackno.
C17_AckWithinOneTick ==
    [][\A s \in Sess :
         (/\ last.op = "recv" /\ last.s = s /\ last.m \in PeerData
          /\ last.out = <<>>
          /\ last'.op = "timer" /\ last'.s = s) =>
            \E j \in 1 .. Len(last'.out) :
                ntohl(last'.out[j].pkt.ackno) = r[s].next_ackno]_vars

\* C18: the sequence numbers of the window's entries, walked from the reader
\* through count entries, increase strictly and are all below next_seqno.
C18_WindowAscending ==
    \A s \in Sess :
        LET window == Entries(r[s].pkt_buf)
        IN  /\ \A i \in 1 .. Len(window) - 1 :
                  get_seqno(window[i]) < get_seqno(window[i + 1])
            /\ \A i \in 1 .. Len(window) :
                  get_seqno(window[i]) < r[s].next_seqno

\* C19: once read_error is set it stays set, and no further sequence number
\* is assigned.
C19_EofFlagStable ==
    [][\A s \in Sess :
         r[s].read_error # 0 =>
            /\ r'[s].read_error # 0
            /\ r'[s].next_seqno = r[s].next_seqno]_vars

\* C20: following next from rel_list visits every live session once and no
\* destroyed one; each live session's prev is the link that points to it,
\* rel_list or the next field of a live session; and rel_timer has called
\* resend once on each live session.
C20_RegistryIntact ==
    LET g == registry
        w == Walk(g, g.rel_list, MaxSessions + 1)
    IN  /\ {w[i] : i \in 1 .. Len(w)} = g.live
        /\ Len(w) = Cardinality(g.live)
        /\ \A id \in g.live :
              IF g.prev[id] = RelListLink THEN g.rel_list = id
              ELSE g.prev[id] \in g.live /\ g.next[g.prev[id]] = id
        /\ last.op = "timer" => g.walk = w

\* C20 witness: a session was destroyed from the middle of the list (it had a
\* successor, and its prev was another session's next), and rel_timer has
\* since walked the two that are left.
C20_MiddleDestroyed ==
    /\ last.op = "timer"
    /\ Len(registry.walk) = 2
    /\ \E d \in registry.made \ registry.live :
          registry.next[d] # NULL /\ registry.prev[d] # RelListLink

====
